---- MODULE Spec2Model ----
(***************************************************************************)
(* monitorbot: two Prometheus collectors that poll the GitHub API from a   *)
(* background task and publish gauges into an Arc<RwLock<Vec<..>>> that    *)
(* the scrape path (Collector::collect) reads.                             *)
(*                                                                         *)
(*   gr_*  : collectors/github_runners.rs     (GithubRunners)              *)
(*   rl_*  : collectors/github_rate_limit.rs  (GitHubRateLimit)            *)
(*   srv_* : lib.rs, collectors/mod.rs        (MetricProvider, startup)    *)
(*                                                                         *)
(* The two collectors share no state, so each has its own specification:   *)
(* SpecRunners and SpecRateLimit.  SpecServer is the HTTP service and the  *)
(* registration of the collectors.                                         *)
(***************************************************************************)
EXTENDS Integers, Sequences, FiniteSets, TLC

VARIABLES
    \* ---- GithubRunners ------------------------------------------------
    gr_metrics,   \* self.metrics: the published Vec<IntGauge>
    gr_lock,      \* the RwLock around it: [writer: BOOLEAN, readers: Nat]
    gr_pc,        \* position of the refresh task
    gr_repo,      \* index into self.repos of the repository being fetched
    gr_url,       \* `url`: page to request next, 0 for None
    gr_follows,   \* next links followed so far in this update_stats call
    gr_gauges,    \* the local `gauges` vector update_stats is building
    gr_last,      \* what the last finished update_stats returned
    gr_scrape,    \* per scraper: the collect() call in progress
    gr_hist,      \* history of the cycle in progress (not program state)
    \* ---- GitHubRateLimit ----------------------------------------------
    rl_metrics,   \* self.metrics: the Vec<User> behind the RwLock
    rl_lock,      \* the RwLock: [writer: BOOLEAN, readers: Nat]
    rl_uninit,    \* the catch-up task's rv2.uninit_tokens
    rl_pc,        \* position of the refresh task
    rl_tokens,    \* update_stats: the tokens still to query
    rl_new_stats, \* update_stats: the (token, remaining, limit, reset) tuples
    rl_w,         \* update_stats: next tuple and gauge to set under the lock
    rl_last,      \* what the last finished update_stats returned
    rl_cu,        \* the catch-up task: position and what it is about to push
    rl_scrape,    \* per scraper: the collect() call in progress
    rl_hist,      \* history (not program state)
    \* ---- MetricProvider ----------------------------------------------
    srv_secret,   \* config.secret, a string (sequence of characters)
    srv_registry, \* the Registry: identities of the registered collectors
    srv_boot,     \* register_collectors: position, and history of the call
    srv_call      \* the last request Service::call answered, and the answer

\* ------------------------------------------------------------------------
\* Bounds
\* ------------------------------------------------------------------------
\* rel="next" links the API hands out during one update_stats call
MaxFollow == 1

\* config.gha_runners_repos, split on ','
Repos == <<"rust", "cargo">>
\* the pages the API serves for a repository; page 1 is GH_RUNNERS_ENDPOINT
Pages == {1, 2}
\* concurrent scrape requests
Scrapers == {"s1"}
\* config.gh_rate_limit_tokens, split on ','
Tokens == <<"t1", "t2">>

NoUrl == 0

Runner(n, s, b) == [name |-> n, status |-> s, busy |-> b]

\* the `runners` arrays a page can carry: none, or the two runners of the
\* spec's scenario B
Bodies ==
    { <<>>,
      <<Runner("r1", "online", FALSE), Runner("r2", "offline", TRUE)>> }

\* values of the x-ratelimit-remaining header; "absent": the header is missing
RemainingHeaders == {"absent", "garbage", "0", "1"}
Statuses == {200, 403}

\* What one GET can come back with: a transport error, or a response.
Responses ==
    { [kind |-> "send_error"] } \cup
    [ kind : {"response"},
      remaining : RemainingHeaders,
      status : Statuses,
      link : {NoUrl} \cup Pages,
      decodable : {TRUE},
      runners : Bodies ] \cup
    [ kind : {"response"},
      remaining : RemainingHeaders,
      status : Statuses,
      link : {NoUrl} \cup Pages,
      decodable : {FALSE},
      runners : {<<>>} ]

\* ------------------------------------------------------------------------
\* github_runners.rs: pure helpers
\* ------------------------------------------------------------------------
\* str::parse::<usize>: the number, or -1 for Err
ParseUsize(s) ==
    CASE s = "0" -> 0
      [] s = "1" -> 1
      [] OTHER -> -1

\* a status check that lets every status through
error_for_status_unchecked(resp) == "Ok"
\* Response::error_for_status_ref: Err for a 4xx or 5xx status
error_for_status_ref(resp) ==
    IF resp.status >= 400 /\ resp.status <= 599 THEN "Err" ELSE "Ok"

\* guard_rate_limited: "panic" when the header is missing (unreachable!()),
\* "Err" when it does not parse; when it reads zero the result is that of
\* error_for_status_ref (with a context added to its error).
guard_rate_limited(resp) ==
    IF resp.remaining = "absent" THEN "panic"
    ELSE IF ParseUsize(resp.remaining) < 0 THEN "Err"
    ELSE IF ParseUsize(resp.remaining) = 0 THEN error_for_status_ref(resp)
    ELSE "Ok"

\* a next_uri that never finds a rel="next" link
next_uri_none(resp) == NoUrl
\* next_uri: the rel="next" target of the Link header, None without one
next_uri(resp) == resp.link

\* metric_factory followed by set(): one IntGauge with its const labels
metric_factory(name, repo, runner, value) ==
    [name |-> name, repo |-> repo, runner |-> runner, value |-> value]

\* a loop body that sets each gauge from the other attribute
RunnerGaugesSwapped(repo, runner) ==
    << metric_factory("online", repo, runner.name,
                      IF runner.busy THEN 1 ELSE 0),
       metric_factory("busy", repo, runner.name,
                      IF runner.status = "online" THEN 1 ELSE 0) >>
\* The two gauges the loop body pushes for one runner.
RunnerGauges(repo, runner) ==
    << metric_factory("online", repo, runner.name,
                      IF runner.status = "online" THEN 1 ELSE 0),
       metric_factory("busy", repo, runner.name,
                      IF runner.busy THEN 1 ELSE 0) >>

RECURSIVE PageGauges(_, _)
\* for runner in resp.runners.iter() { ... gauges.push(online); gauges.push(busy) }
PageGauges(repo, runners) ==
    IF runners = <<>> THEN <<>>
    ELSE RunnerGauges(repo, Head(runners)) \o PageGauges(repo, Tail(runners))

\* One pass of the `while let` body on a response: what the `?`s make of it.
\* send()?, guard_rate_limited()?, error_for_status_ref()?, json()? in order.
PageOutcome(resp) ==
    IF resp.kind = "send_error" THEN "Err"
    ELSE IF guard_rate_limited(resp) # "Ok" THEN guard_rate_limited(resp)
    ELSE IF error_for_status_ref(resp) # "Ok" THEN "Err"
    ELSE IF ~resp.decodable THEN "Err"
    ELSE "Ok"

\* ------------------------------------------------------------------------
\* The RwLock (std::sync::RwLock): many readers or one writer
\* ------------------------------------------------------------------------
\* a timer that calls update_stats again while a call is still in progress
LoopCallsAnytime(pc) == pc # "panicked"
\* `loop { update_stats().await; delay_for(refresh_rate).await }`: the task
\* calls update_stats when the call before has returned and the delay is over
LoopCanCall(pc) == pc = "idle"

\* poisoned: a writer panicked while holding the guard
LockFree == [writer |-> FALSE, readers |-> 0, poisoned |-> FALSE]
\* read() returns once no writer holds the lock
CanRead(lock) == ~lock.writer
\* a write() that does not wait for the readers to leave
CanWriteOverReaders(lock) == ~lock.writer
\* write() returns (and try_write() succeeds) once nobody holds the lock
CanWrite(lock) == ~lock.writer /\ lock.readers = 0

\* a publish that appends to the vector instead of replacing it
Extend(old, new) == old \o new
\* `*guard = gauges`: the new vector takes the place of the old one
Replace(old, new) == new

\* ------------------------------------------------------------------------
\* GithubRunners: the refresh task (new, lines 74-82) and update_stats
\* ------------------------------------------------------------------------
gr_vars == <<gr_metrics, gr_lock, gr_pc, gr_repo, gr_url, gr_follows,
             gr_gauges, gr_last, gr_scrape, gr_hist>>

\* A collect call: its position, the fold's index and accumulator, and
\* (history) the vector that was published when it took the read guard.
ScrapeIdle == [pc |-> "idle", idx |-> 0, acc |-> <<>>, snap |-> <<>>]

\* What the history records of one cycle:
\*   before   the published vector when the cycle began
\*   failed   a request of the cycle met a send error, a 4xx/5xx status, an
\*            unparsable rate-limit header or an undecodable body
\*   errRepo  index of the repository whose request made update_stats
\*            return Err (0: none)
\*   zero     a response of the cycle carried x-ratelimit-remaining: 0
\*   fetched  indexes of the repositories requested in the cycle
\*   returned the runners of the cycle's decoded pages, each with its
\*            repository, in the order the API returned them
\*   pages    one entry per GET of the cycle, in order: the repository and
\*            URL requested, and what came back (PageSeen)
\*   running  update_stats calls that have begun and not returned
HistAt(metrics) ==
    [before |-> metrics, failed |-> FALSE, errRepo |-> 0, zero |-> FALSE,
     fetched |-> {}, returned |-> <<>>, pages |-> <<>>, running |-> 0]

\* the history entry of one GET: for a response that update_stats took to the
\* end of the loop body, the rel="next" target the server sent and the
\* runners of the body
PageSeen(repo, url, resp, out) ==
    IF out = "Ok"
    THEN [repo |-> repo, url |-> url, ok |-> TRUE, link |-> resp.link,
          runners |-> resp.runners]
    ELSE [repo |-> repo, url |-> url, ok |-> FALSE, link |-> NoUrl,
          runners |-> <<>>]

FailedResponse(resp) ==
    \/ resp.kind = "send_error"
    \/ /\ resp.kind = "response"
       /\ \/ resp.status >= 400
          \/ ~resp.decodable
          \/ resp.remaining = "garbage"

ZeroRemaining(resp) ==
    resp.kind = "response" /\ resp.remaining = "0"

Returned(repo, runners) ==
    [i \in 1..Len(runners) |-> [repo |-> repo, runner |-> runners[i]]]

\* GithubRunners::new: empty metrics, the refresh task spawned
GR_Init ==
    /\ gr_metrics = <<>>
    /\ gr_lock = LockFree
    /\ gr_pc = "idle"
    /\ gr_repo = 0
    /\ gr_url = NoUrl
    /\ gr_follows = 0
    /\ gr_gauges = <<>>
    /\ gr_last = "none"
    /\ gr_scrape = [s \in Scrapers |-> ScrapeIdle]
    /\ gr_hist = HistAt(<<>>)

\* The loop of the spawned task calls update_stats (at spawn, and after each
\* delay_for): gauges is created empty and the first repository's URL built.
GR_UpdateStart ==
    /\ LoopCanCall(gr_pc)
    /\ gr_pc' = "fetch"
    /\ gr_repo' = 1
    /\ gr_url' = 1
    /\ gr_follows' = 0
    /\ gr_gauges' = <<>>
    /\ gr_hist' = [HistAt(gr_metrics) EXCEPT !.running = gr_hist.running + 1]
    /\ UNCHANGED <<gr_metrics, gr_lock, gr_last, gr_scrape>>

\* One pass of `while let Some(endpoint) = url.take()`: the GET of gr_url for
\* repository gr_repo and everything up to the next await.  `resp` is what the
\* API answers; it hands out at most MaxFollow next links per call.
GR_Fetch ==
    /\ gr_pc = "fetch"
    /\ \E resp \in Responses :
         /\ (resp.kind = "response" /\ resp.link # NoUrl)
               => gr_follows < MaxFollow
         /\ LET out  == PageOutcome(resp)
                repo == Repos[gr_repo]
                next == next_uri(resp)
                last == gr_repo = Len(Repos)
            IN  /\ gr_hist' =
                     [gr_hist EXCEPT
                        !.failed = @ \/ FailedResponse(resp),
                        !.errRepo = IF out = "Err" THEN gr_repo ELSE @,
                        !.zero = @ \/ ZeroRemaining(resp),
                        !.fetched = @ \cup {gr_repo},
                        !.returned = IF out = "Ok"
                                     THEN @ \o Returned(repo, resp.runners)
                                     ELSE @,
                        !.pages = Append(@, PageSeen(gr_repo, gr_url, resp, out)),
                        !.running = IF out = "Ok" THEN @ ELSE @ - 1]
                /\ CASE out = "panic" ->
                          \* unreachable!() unwinds the task: it never runs again
                          /\ gr_pc' = "panicked"
                          /\ gr_last' = "panic"
                          /\ gr_gauges' = <<>>
                          /\ gr_url' = NoUrl
                          /\ UNCHANGED <<gr_repo, gr_follows>>
                     [] out = "Err" ->
                          \* `?` returns Err from update_stats; the task logs
                          \* it and sleeps
                          /\ gr_pc' = "idle"
                          /\ gr_last' = "Err"
                          /\ gr_gauges' = <<>>
                          /\ gr_url' = NoUrl
                          /\ UNCHANGED <<gr_repo, gr_follows>>
                     [] out = "Ok" ->
                          /\ gr_gauges' =
                               gr_gauges \o PageGauges(repo, resp.runners)
                          /\ gr_last' = gr_last
                          /\ IF next # NoUrl
                             THEN /\ gr_url' = next
                                  /\ gr_follows' = gr_follows + 1
                                  /\ UNCHANGED <<gr_repo, gr_pc>>
                             ELSE IF last
                             THEN /\ gr_url' = NoUrl
                                  /\ gr_pc' = "publish"
                                  /\ UNCHANGED <<gr_repo, gr_follows>>
                             ELSE /\ gr_repo' = gr_repo + 1
                                  /\ gr_url' = 1
                                  /\ UNCHANGED <<gr_follows, gr_pc>>
    /\ UNCHANGED <<gr_metrics, gr_lock, gr_scrape>>

\* self.metrics.write().unwrap(): waits until the lock is free
GR_WriteLock ==
    /\ gr_pc = "publish"
    /\ CanWrite(gr_lock)
    /\ gr_lock' = [gr_lock EXCEPT !.writer = TRUE]
    /\ gr_pc' = "locked"
    /\ UNCHANGED <<gr_metrics, gr_repo, gr_url, gr_follows, gr_gauges,
                   gr_last, gr_scrape, gr_hist>>

\* `*guard = gauges; Ok(())`: the guard is dropped on return
GR_Publish ==
    /\ gr_pc = "locked"
    /\ gr_metrics' = Replace(gr_metrics, gr_gauges)
    /\ gr_lock' = [gr_lock EXCEPT !.writer = FALSE]
    /\ gr_pc' = "idle"
    /\ gr_last' = "Ok"
    /\ gr_gauges' = <<>>
    /\ gr_hist' = [gr_hist EXCEPT !.running = @ - 1]
    /\ UNCHANGED <<gr_repo, gr_url, gr_follows, gr_scrape>>

\* ------------------------------------------------------------------------
\* GithubRunners::collect, one call per scraper at a time
\* ------------------------------------------------------------------------
\* self.metrics.read(): the read guard is taken
GR_CollectBegin(s) ==
    /\ gr_scrape[s].pc = "idle"
    /\ CanRead(gr_lock)
    /\ gr_lock' = [gr_lock EXCEPT !.readers = @ + 1]
    /\ gr_scrape' = [gr_scrape EXCEPT ![s] =
                       [pc |-> "reading", idx |-> 0, acc |-> <<>>,
                        snap |-> gr_metrics]]
    /\ UNCHANGED <<gr_metrics, gr_pc, gr_repo, gr_url, gr_follows,
                   gr_gauges, gr_last, gr_hist>>

\* one step of guard.iter().fold(..): acc.extend(item.collect())
GR_CollectItem(s) ==
    /\ gr_scrape[s].pc = "reading"
    /\ gr_scrape[s].idx < Len(gr_metrics)
    /\ gr_scrape' = [gr_scrape EXCEPT
                       ![s].idx = @ + 1,
                       ![s].acc = Append(@, gr_metrics[gr_scrape[s].idx + 1])]
    /\ UNCHANGED <<gr_metrics, gr_lock, gr_pc, gr_repo, gr_url,
                   gr_follows, gr_gauges, gr_last, gr_hist>>

\* the fold is over: the guard is dropped and acc returned
GR_CollectEnd(s) ==
    /\ gr_scrape[s].pc = "reading"
    /\ gr_scrape[s].idx >= Len(gr_metrics)
    /\ gr_lock' = [gr_lock EXCEPT !.readers = @ - 1]
    /\ gr_scrape' = [gr_scrape EXCEPT ![s] = ScrapeIdle]
    /\ UNCHANGED <<gr_metrics, gr_pc, gr_repo, gr_url, gr_follows,
                   gr_gauges, gr_last, gr_hist>>

\* ------------------------------------------------------------------------
\* GithubRunners: properties
\* ------------------------------------------------------------------------
RECURSIVE GaugesOf(_)
\* the gauge vector a complete cycle builds from the runners it was returned
GaugesOf(returned) ==
    IF returned = <<>> THEN <<>>
    ELSE RunnerGauges(Head(returned).repo, Head(returned).runner)
           \o GaugesOf(Tail(returned))

GaugePairs(gauges) ==
    { <<gauges[i].repo, gauges[i].runner>> : i \in 1..Len(gauges) }

ReturnedPairs(returned) ==
    { <<returned[i].repo, returned[i].runner.name>> : i \in 1..Len(returned) }

\* The published vector is the one of before the cycle, or the whole vector
\* of the cycle that just returned Ok.
GR_PublishedIsComplete ==
    \/ gr_metrics = gr_hist.before
    \/ /\ gr_pc = "idle"
       /\ gr_last = "Ok"
       /\ gr_metrics = GaugesOf(gr_hist.returned)

\* C1: a collect that runs while update_stats is in progress reads one
\* published vector from its first gauge to its last: what it has folded so
\* far is a prefix of the vector that was published when it took the read
\* guard, what it returns is that whole vector, and a published vector is
\* always the complete vector of one cycle (the previous one until the swap,
\* the new one after it), never a partly built or a mixed one.
GR_ScrapeSeesOneSnapshot ==
    /\ GR_PublishedIsComplete
    /\ \A s \in Scrapers :
         gr_scrape[s].pc = "reading" =>
            /\ gr_scrape[s].snap = gr_metrics
            /\ gr_scrape[s].idx <= Len(gr_scrape[s].snap)
            /\ gr_scrape[s].acc =
                 SubSeq(gr_scrape[s].snap, 1, gr_scrape[s].idx)
            /\ gr_scrape[s].idx >= Len(gr_metrics)
                 => gr_scrape[s].acc = gr_scrape[s].snap

\* C1 witness: a collect has folded the whole (non-empty) old vector while
\* update_stats, holding a different complete vector, waits for the lock.
GR_ScrapeDuringRefresh ==
    \E s \in Scrapers :
       /\ gr_scrape[s].pc = "reading"
       /\ gr_scrape[s].acc # <<>>
       /\ gr_scrape[s].idx = Len(gr_metrics)
       /\ gr_pc = "publish"
       /\ gr_gauges # <<>>
       /\ gr_gauges # gr_metrics

\* C3: once a request of a cycle has failed (send error, 4xx/5xx status,
\* unparsable rate-limit header, undecodable body) the cycle is over without
\* a publish: the published vector is the one of before the cycle.
GR_FailedCycleKeepsSnapshot ==
    gr_hist.failed =>
       /\ gr_metrics = gr_hist.before
       /\ gr_pc \in {"idle", "panicked"}
       /\ gr_last \in {"Err", "panic"}

\* C3 witness: a cycle failed after a next link was followed and runners were
\* decoded, with a non-empty vector published by an earlier cycle.
GR_FailedMidPagination ==
    /\ gr_hist.failed
    /\ gr_pc = "idle"
    /\ gr_follows > 0
    /\ gr_hist.returned # <<>>
    /\ gr_hist.before # <<>>
    /\ gr_hist.before # GaugesOf(gr_hist.returned)

\* C4 (as claimed): when update_stats has returned after the fetch of
\* repository i failed, every repository configured after i was requested in
\* that cycle.
GR_FailureSkipsOnlyThatRepo ==
    (gr_pc = "idle" /\ gr_hist.errRepo # 0) =>
       \A j \in (gr_hist.errRepo + 1)..Len(Repos) : j \in gr_hist.fetched

\* C6 (as claimed): a response with x-ratelimit-remaining: 0 makes the fetch
\* fail whatever its status: the cycle ends without Ok and the published
\* vector is retained.
GR_ZeroRemainingAlwaysFails ==
    gr_hist.zero =>
       /\ gr_pc \in {"idle", "panicked"}
       /\ gr_last # "Ok"
       /\ gr_metrics = gr_hist.before

\* C7: after update_stats returned Ok, the published vector has gauges for
\* exactly the (repository, runner) pairs of that cycle's responses; a pair
\* of an earlier cycle that the responses no longer contain is gone.
GR_SnapshotIsLatestCycle ==
    (gr_pc = "idle" /\ gr_last = "Ok") =>
       GaugePairs(gr_metrics) = ReturnedPairs(gr_hist.returned)

\* C7 witness: a cycle returned Ok and a pair published before it is not in
\* the vector any more, while other pairs are.
GR_StaleRunnerGone ==
    /\ gr_pc = "idle"
    /\ gr_last = "Ok"
    /\ gr_metrics # <<>>
    /\ GaugePairs(gr_hist.before) \ GaugePairs(gr_metrics) # {}

RECURSIVE GaugesOfPages(_)
\* the gauges of a sequence of pages: those of each page, once, in order
GaugesOfPages(pages) ==
    IF pages = <<>> THEN <<>>
    ELSE PageGauges(Repos[Head(pages).repo], Head(pages).runners)
           \o GaugesOfPages(Tail(pages))

\* C11: the GETs of a cycle follow each repository's chain of pages: the
\* first GET of a repository is for its endpoint, each further GET is for the
\* rel="next" target of the response before it, and update_stats leaves a
\* repository (for the next one, or for the publish) exactly after the
\* response that carries no next link.  So a chain of N pages gets N GETs
\* in chain order.  The gauges built, and published after the last chain,
\* are those of the runners of exactly these pages, each page once.
GR_FollowsChain ==
    LET P == gr_hist.pages
    IN  /\ \A i \in 1..Len(P) :
              IF i = 1 THEN P[i].repo = 1 /\ P[i].url = 1
              ELSE /\ P[i - 1].ok
                   /\ IF P[i - 1].link # NoUrl
                      THEN P[i].repo = P[i - 1].repo /\ P[i].url = P[i - 1].link
                      ELSE P[i].repo = P[i - 1].repo + 1 /\ P[i].url = 1
        /\ gr_pc = "fetch" =>
              /\ gr_gauges = GaugesOfPages(P)
              /\ P # <<>> =>
                    IF P[Len(P)].link # NoUrl
                    THEN gr_repo = P[Len(P)].repo /\ gr_url = P[Len(P)].link
                    ELSE gr_repo = P[Len(P)].repo + 1 /\ gr_url = 1
        /\ (gr_pc \in {"publish", "locked"} \/ (gr_pc = "idle" /\ gr_last = "Ok")) =>
              /\ P # <<>>
              /\ P[Len(P)].ok
              /\ P[Len(P)].link = NoUrl
              /\ P[Len(P)].repo = Len(Repos)
              /\ gr_pc = "idle" => gr_metrics = GaugesOfPages(P)
              /\ gr_pc # "idle" => gr_gauges = GaugesOfPages(P)

\* C11 witness: a cycle returned Ok after a chain of two pages, both with
\* runners, was followed for a repository.
GR_TwoPageChainFetched ==
    /\ gr_pc = "idle"
    /\ gr_last = "Ok"
    /\ \E i \in 1..(Len(gr_hist.pages) - 1) :
          /\ gr_hist.pages[i].link # NoUrl
          /\ gr_hist.pages[i].runners # <<>>
          /\ gr_hist.pages[i + 1].repo = gr_hist.pages[i].repo
          /\ gr_hist.pages[i + 1].runners # <<>>

\* the gauges of a vector that carry the labels (repo, runner)
Labelled(gauges, repo, runner) ==
    { k \in 1..Len(gauges) : gauges[k].repo = repo /\ gauges[k].runner = runner }

GR_PaginationCapped ==
    gr_follows < MaxFollow

\* C13 (as claimed): a collect never waits for the lock: whenever a scrape
\* calls collect, the call can take its first step at once (with the guard,
\* or with an empty result when a writer holds the lock).
GR_CollectNeverBlocks ==
    \A s \in Scrapers :
       gr_scrape[s].pc = "idle" => ENABLED GR_CollectBegin(s)

\* C15 (as claimed): whatever the API answered in a cycle, the refresh task
\* goes on: whenever no update_stats is in progress the task is there to
\* call it again.
GR_RefreshTaskGoesOn ==
    gr_hist.running = 0 => ENABLED GR_UpdateStart

\* ------------------------------------------------------------------------
\* http.rs and github_rate_limit.rs: what the API answers, pure helpers
\* ------------------------------------------------------------------------
\* the `rate` objects GET /rate_limit can carry (HashMap<String, usize>):
\* quota left, quota exhausted, and one without a "remaining" entry
RateMaps ==
    { ("limit" :> 5 @@ "remaining" :> 2 @@ "reset" :> 7),
      ("limit" :> 4 @@ "remaining" :> 0 @@ "reset" :> 8),
      ("limit" :> 6 @@ "reset" :> 9) }

NoRate == [k \in {} |-> 0]

\* What GET /rate_limit can come back with: a transport error, a 200 with a
\* `rate` object or with a body that does not decode, or a 401/403 whose
\* body (GitHub's error message) has no `rate`.  search: the body also
\* reports the quota of a second product, "search", under `resources`.
RateAnswers ==
    { [kind |-> "send_error"] } \cup
    [ kind : {"response"}, status : {200}, decodable : {TRUE}, rate : RateMaps,
      search : BOOLEAN ] \cup
    [ kind : {"response"}, status : {200, 401, 403}, decodable : {FALSE},
      rate : {NoRate}, search : {FALSE} ]

\* the quota the API reports for the product "search"
SearchQuota == ("limit" :> 3 @@ "remaining" :> 1 @@ "reset" :> 6)

\* the `resources` object of a response: product name -> quota; `rate` is
\* the quota of "core".  struct GithubRateLimit has no field for it, so the
\* decoding drops it.
ResourcesOf(ans) ==
    IF ans.search THEN ("core" :> ans.rate @@ "search" :> SearchQuota)
    ELSE ("core" :> ans.rate)

\* What GET /user can come back with: a body with a login, or anything else
UserAnswers == [ login : BOOLEAN ]

\* the login GitHub reports for a token
NameOf(token) == IF token = "t1" THEN "u1" ELSE "u2"

\* HashMap::remove(key).unwrap_or(0)
RemoveOr0(map, key) == IF key \in DOMAIN map THEN map[key] ELSE 0

\* http::get_token_rate_limit_stats: send().await?.json().await
get_token_rate_limit_stats(ans) ==
    IF ans.kind = "send_error" THEN [ok |-> FALSE, rate |-> NoRate]
    ELSE IF ~ans.decodable THEN [ok |-> FALSE, rate |-> NoRate]
    ELSE [ok |-> TRUE, rate |-> ans.rate]

\* a check that takes a missing `remaining` for quota left (unwrap_or(1))
is_token_flagged_lenient(ans) ==
    LET r == get_token_rate_limit_stats(ans)
    IN  IF ~r.ok THEN "Err"
        ELSE IF "remaining" \in DOMAIN r.rate /\ r.rate["remaining"] = 0
             THEN "flagged"
        ELSE "clear"
\* http::is_token_flagged: "Err", or whether `remaining` is 0 or missing
is_token_flagged(ans) ==
    LET r == get_token_rate_limit_stats(ans)
    IN  IF ~r.ok THEN "Err"
        ELSE IF RemoveOr0(r.rate, "remaining") = 0 THEN "flagged"
        ELSE "clear"

\* a resolution that falls back to an empty login when GET /user fails
get_github_api_username_or_default(rate, user) ==
    IF is_token_flagged(rate) # "clear" THEN [ok |-> FALSE, called |-> FALSE]
    ELSE [ok |-> TRUE, called |-> TRUE]
\* get_github_api_username: Ok(login) only when the token is not flagged and
\* GET /user decodes to a login; `called`: GET /user was sent
get_github_api_username(rate, user) ==
    IF is_token_flagged(rate) # "clear" THEN [ok |-> FALSE, called |-> FALSE]
    ELSE [ok |-> user.login, called |-> TRUE]

\* the User get_users_for_tokens builds: three gauges at 0
NewUser(token) ==
    [token |-> token, name |-> NameOf(token),
     limit |-> 0, remaining |-> 0, reset |-> 0]

\* what the API answers for one token during one resolution pass
ResolveAnswers == [ rate : RateAnswers, user : UserAnswers ]

RECURSIVE get_users_for_tokens(_, _)
\* get_users_for_tokens: (users built, tokens left unresolved), in order;
\* answers[t] is what the API answers for token t in this pass
get_users_for_tokens(tokens, answers) ==
    IF tokens = <<>> THEN [users |-> <<>>, uninit |-> <<>>]
    ELSE LET t    == Head(tokens)
             name == get_github_api_username(answers[t].rate, answers[t].user)
             rest == get_users_for_tokens(Tail(tokens), answers)
         IN  IF name.ok
             THEN [users |-> <<NewUser(t)>> \o rest.users, uninit |-> rest.uninit]
             ELSE [users |-> rest.users, uninit |-> <<t>> \o rest.uninit]

SeqSet(seq) == { seq[i] : i \in 1..Len(seq) }

\* lock.iter().fold(..): the tokens of the active list, in order
TokensOf(metrics) == [i \in 1..Len(metrics) |-> metrics[i].token]

\* guard.iter().find(|item| item.token == token): index of the first match,
\* 0 for None
Find(metrics, token) ==
    IF \E i \in 1..Len(metrics) : metrics[i].token = token
    THEN CHOOSE i \in 1..Len(metrics) :
            /\ metrics[i].token = token
            /\ \A j \in 1..(i - 1) : metrics[j].token # token
    ELSE 0

\* the tuple update_stats pushes: (token, remaining, limit, reset)
StatsTuple(token, rate) ==
    << token, RemoveOr0(rate, "remaining"), RemoveOr0(rate, "limit"),
       RemoveOr0(rate, "reset") >>

\* the k-th set() of the closure at lines 237-241 on one item
SetGauge(item, tuple, k) ==
    CASE k = 1 -> [item EXCEPT !.remaining = tuple[2]]
      [] k = 2 -> [item EXCEPT !.limit = tuple[3]]
      [] k = 3 -> [item EXCEPT !.reset = tuple[4]]

\* a failed fetch that takes the credential off the active list
DropOnPollError(metrics, token) ==
    SelectSeq(metrics, LAMBDA u : u.token # token)
\* a failed fetch in update_stats (`?`): the active list is left as it is
AfterPollError(metrics, token) == metrics

\* collect: the three samples of one item, in the order they are extended
Samples(item) ==
    << [name |-> "limit", username |-> item.name, value |-> item.limit],
       [name |-> "remaining", username |-> item.name, value |-> item.remaining],
       [name |-> "reset", username |-> item.name, value |-> item.reset] >>

RECURSIVE CollectAll(_)
\* collect: the whole fold over the list
CollectAll(metrics) ==
    IF metrics = <<>> THEN <<>>
    ELSE Samples(Head(metrics)) \o CollectAll(Tail(metrics))

\* ------------------------------------------------------------------------
\* GitHubRateLimit: new, the refresh task, the catch-up task
\* ------------------------------------------------------------------------
rl_vars == <<rl_metrics, rl_lock, rl_uninit, rl_pc, rl_tokens, rl_new_stats,
             rl_w, rl_last, rl_cu, rl_scrape, rl_hist>>

srv_vars == <<srv_secret, srv_registry, srv_boot, srv_call>>

vars == <<gr_vars, rl_vars, srv_vars>>

\* GET /user was sent for the token and answered with a login
WhoAmISucceeds(ans) ==
    /\ is_token_flagged(ans.rate) = "clear"
    /\ ans.user.login

\* a poll answered 401 or 403
AuthFailure(ans) ==
    ans.kind = "response" /\ ans.status \in {401, 403}

\* config.gh_rate_limit_stats_cache_refresh, in seconds (its default)
RefreshRate == 120

\* line 74: the delay of the catch-up task, from the primary interval
CatchUpRefreshRate(refresh_rate) == refresh_rate + 10

\* The catch-up task: its position ("none": not spawned), the users and the
\* rest of a pass about to push, and the seconds it sleeps before each pass
CatchUpAt(pc) ==
    [pc |-> pc, users |-> <<>>, rest |-> <<>>,
     delay |-> IF pc = "none" THEN 0 ELSE CatchUpRefreshRate(RefreshRate)]

\* What the history records:
\*   before    the active list when the cycle in progress read its tokens
\*   stats     the tuples the cycle fetched
\*   wrote     the cycle went through its write section
\*   resolved  tokens for which GET /user has been answered with a login
\*   authFail  tokens a poll of which was answered 401/403
\*   pushed    tokens of the users the catch-up task has pushed
\*   dropped   tokens of the users a catch-up pass built and did not push
\*   running   update_stats calls that have begun and not returned
\*   reported  for each tuple of stats, the `resources` of its response
\*   exhausted tokens whose latest resolution attempt met an exhausted quota
\*   askedExhausted  GET /user was sent in an attempt that met one
HistInit(resolved) ==
    [before |-> <<>>, stats |-> <<>>, wrote |-> FALSE,
     resolved |-> resolved, authFail |-> {}, pushed |-> {}, dropped |-> {},
     running |-> 0, reported |-> <<>>, exhausted |-> {},
     askedExhausted |-> FALSE]

\* the rate-limit response reports remaining 0, or no `remaining` at all
QuotaExhausted(ans) ==
    /\ ans.kind = "response"
    /\ ans.decodable
    /\ \/ "remaining" \notin DOMAIN ans.rate
       \/ ans.rate["remaining"] = 0

\* the history after one resolution pass over `tokens`
AfterResolution(hist, tokens, answers) ==
    [hist EXCEPT
       !.resolved = @ \cup {t \in tokens : WhoAmISucceeds(answers[t])},
       !.exhausted = (@ \ tokens) \cup
                       {t \in tokens : QuotaExhausted(answers[t].rate)},
       !.askedExhausted = @ \/
          \E t \in tokens :
             /\ QuotaExhausted(answers[t].rate)
             /\ get_github_api_username(answers[t].rate, answers[t].user).called]

\* GitHubRateLimit::new: the tokens are resolved once, the resolved ones
\* become the active list with gauges at 0, the others go to uninit_tokens;
\* the refresh task is spawned, and the catch-up task if a token is left.
RL_Init ==
    \E answers \in [SeqSet(Tokens) -> ResolveAnswers] :
       LET d == get_users_for_tokens(Tokens, answers)
       IN  /\ rl_metrics = d.users
           /\ rl_uninit = d.uninit
           /\ rl_cu = CatchUpAt(IF d.uninit # <<>> THEN "sleep" ELSE "none")
           /\ rl_hist = AfterResolution(HistInit({}), SeqSet(Tokens), answers)
           /\ rl_lock = LockFree
           /\ rl_pc = "idle"
           /\ rl_tokens = <<>>
           /\ rl_new_stats = <<>>
           /\ rl_w = [i |-> 0, k |-> 0]
           /\ rl_last = "none"
           /\ rl_scrape = [s \in Scrapers |-> ScrapeIdle]

\* update_stats, line 203: self.metrics.read() returns the guard
RL_ReadLock ==
    /\ LoopCanCall(rl_pc)
    /\ CanRead(rl_lock)
    /\ rl_pc' = "reading"
    /\ rl_lock' = IF rl_lock.poisoned THEN rl_lock
                  ELSE [rl_lock EXCEPT !.readers = @ + 1]
    /\ rl_hist' = [rl_hist EXCEPT !.running = @ + 1]
    /\ UNCHANGED <<rl_metrics, rl_uninit, rl_tokens, rl_new_stats, rl_w,
                   rl_last, rl_cu, rl_scrape>>

\* a read guard bound to a variable that lives to the end of update_stats
KeepTokensGuard(lock) == lock
\* the block at lines 202-212 ends: the read guard, a temporary, is dropped
DropTokensGuard(lock) == [lock EXCEPT !.readers = @ - 1]

\* lines 203-215: the fold over the list (Vec::new() when the lock is
\* poisoned), the guard dropped, new_stats created
RL_ReadTokens ==
    /\ rl_pc = "reading"
    /\ rl_tokens' = IF rl_lock.poisoned THEN <<>> ELSE TokensOf(rl_metrics)
    /\ rl_lock' = IF rl_lock.poisoned THEN rl_lock
                  ELSE DropTokensGuard(rl_lock)
    /\ rl_new_stats' = <<>>
    /\ rl_pc' = "fetch"
    /\ rl_hist' = [rl_hist EXCEPT !.before = rl_metrics, !.stats = <<>>,
                                  !.wrote = FALSE, !.reported = <<>>]
    /\ UNCHANGED <<rl_metrics, rl_uninit, rl_w, rl_last, rl_cu, rl_scrape>>

\* lines 216-229: one pass of `for token in tokens`
RL_Fetch ==
    /\ rl_pc = "fetch"
    /\ rl_tokens # <<>>
    /\ \E ans \in RateAnswers :
         LET t == Head(rl_tokens)
             r == get_token_rate_limit_stats(ans)
         IN  IF ~r.ok
             THEN \* `?`: update_stats returns Err, the task logs it and sleeps
                  /\ rl_pc' = "idle"
                  /\ rl_last' = "Err"
                  /\ rl_tokens' = <<>>
                  /\ rl_new_stats' = <<>>
                  /\ rl_metrics' = AfterPollError(rl_metrics, t)
                  /\ rl_hist' = [rl_hist EXCEPT
                                   !.authFail = IF AuthFailure(ans)
                                                THEN @ \cup {t} ELSE @,
                                   !.running = @ - 1]
             ELSE /\ rl_new_stats' = Append(rl_new_stats, StatsTuple(t, r.rate))
                  /\ rl_tokens' = Tail(rl_tokens)
                  /\ rl_hist' = [rl_hist EXCEPT
                                   !.stats = Append(@, StatsTuple(t, r.rate)),
                                   !.reported = Append(@, ResourcesOf(ans))]
                  /\ UNCHANGED <<rl_pc, rl_last, rl_metrics>>
    /\ UNCHANGED <<rl_lock, rl_uninit, rl_w, rl_cu, rl_scrape>>

\* line 232: self.metrics.try_write(); when it fails the write section is
\* skipped and update_stats returns Ok
RL_TryWrite ==
    /\ rl_pc = "fetch"
    /\ rl_tokens = <<>>
    /\ IF CanWrite(rl_lock) /\ ~rl_lock.poisoned
       THEN /\ rl_lock' = [rl_lock EXCEPT !.writer = TRUE]
            /\ rl_pc' = "write"
            /\ rl_w' = [i |-> 1, k |-> 1]
            /\ UNCHANGED <<rl_new_stats, rl_last, rl_hist>>
       ELSE /\ rl_pc' = "idle"
            /\ rl_last' = "Ok"
            /\ rl_new_stats' = <<>>
            /\ rl_hist' = [rl_hist EXCEPT !.running = @ - 1]
            /\ UNCHANGED <<rl_lock, rl_w>>
    /\ UNCHANGED <<rl_metrics, rl_uninit, rl_tokens, rl_cu, rl_scrape>>

\* lines 233-243: one set() on the item found for the next tuple; unwrap()
\* on a failed find panics with the guard held, which poisons the lock
RL_Set ==
    /\ rl_pc = "write"
    /\ rl_w.i <= Len(rl_new_stats)
    /\ LET tuple == rl_new_stats[rl_w.i]
           j     == Find(rl_metrics, tuple[1])
       IN  IF j = 0
           THEN /\ rl_pc' = "panicked"
                /\ rl_last' = "panic"
                /\ rl_lock' = [rl_lock EXCEPT !.writer = FALSE, !.poisoned = TRUE]
                /\ rl_hist' = [rl_hist EXCEPT !.running = @ - 1]
                /\ UNCHANGED <<rl_metrics, rl_w>>
           ELSE /\ rl_metrics' = [rl_metrics EXCEPT ![j] = SetGauge(@, tuple, rl_w.k)]
                /\ rl_w' = IF rl_w.k < 3 THEN [rl_w EXCEPT !.k = @ + 1]
                           ELSE [i |-> rl_w.i + 1, k |-> 1]
                /\ UNCHANGED <<rl_pc, rl_last, rl_lock, rl_hist>>
    /\ UNCHANGED <<rl_uninit, rl_tokens, rl_new_stats, rl_cu, rl_scrape>>

\* line 244: the write guard is dropped, update_stats returns Ok
RL_WriteEnd ==
    /\ rl_pc = "write"
    /\ rl_w.i > Len(rl_new_stats)
    /\ rl_lock' = [rl_lock EXCEPT !.writer = FALSE]
    /\ rl_pc' = "idle"
    /\ rl_last' = "Ok"
    /\ rl_new_stats' = <<>>
    /\ rl_hist' = [rl_hist EXCEPT !.wrote = TRUE, !.running = @ - 1]
    /\ UNCHANGED <<rl_metrics, rl_uninit, rl_tokens, rl_w, rl_cu, rl_scrape>>

\* a task that goes back to sleep whatever is left
CatchUpRestForever(rest) == CatchUpAt("sleep")
\* lines 97-103 of the catch-up task: with no token left the task returns,
\* otherwise it keeps the tokens still unresolved for its next pass
CatchUpRest(rest) ==
    CatchUpAt(IF rest = <<>> THEN "done" ELSE "sleep")

\* One pass of the catch-up task after its delay_for (lines 78-90):
\* get_users_for_tokens on uninit_tokens, `continue` when nothing resolved,
\* else try_write.  When try_write fails nothing is pushed and the pass goes
\* on to lines 97-103.
RL_CatchUpPass ==
    /\ rl_cu.pc = "sleep"
    /\ \E answers \in [SeqSet(rl_uninit) -> ResolveAnswers] :
         LET d   == get_users_for_tokens(rl_uninit, answers)
             h   == AfterResolution(rl_hist, SeqSet(rl_uninit), answers)
         IN  IF d.users = <<>>
             THEN /\ rl_hist' = h
                  /\ UNCHANGED <<rl_lock, rl_cu, rl_uninit>>
             ELSE IF CanWrite(rl_lock) /\ ~rl_lock.poisoned
             THEN /\ rl_lock' = [rl_lock EXCEPT !.writer = TRUE]
                  /\ rl_cu' = [CatchUpAt("push") EXCEPT !.users = d.users,
                                                          !.rest = d.uninit]
                  /\ rl_hist' = h
                  /\ UNCHANGED rl_uninit
             ELSE /\ rl_cu' = CatchUpRest(d.uninit)
                  /\ rl_uninit' = d.uninit
                  /\ rl_hist' = [h EXCEPT
                                   !.dropped = @ \cup SeqSet(TokensOf(d.users))]
                  /\ UNCHANGED rl_lock
    /\ UNCHANGED <<rl_metrics, rl_pc, rl_tokens, rl_new_stats, rl_w, rl_last,
                   rl_scrape>>

\* a push that puts the new users in the place of the list
PushReplacing(metrics, users) == users
\* `for u in data.0 { guard.push(u) }`: the users are appended to the list
Push(metrics, users) == metrics \o users

\* lines 91-103 with the write guard held: every resolved user is pushed,
\* the guard dropped and uninit_tokens updated
RL_CatchUpPush ==
    /\ rl_cu.pc = "push"
    /\ rl_metrics' = Push(rl_metrics, rl_cu.users)
    /\ rl_lock' = [rl_lock EXCEPT !.writer = FALSE]
    /\ rl_uninit' = rl_cu.rest
    /\ rl_cu' = CatchUpRest(rl_cu.rest)
    /\ rl_hist' = [rl_hist EXCEPT
                     !.pushed = @ \cup SeqSet(TokensOf(rl_cu.users))]
    /\ UNCHANGED <<rl_pc, rl_tokens, rl_new_stats, rl_w, rl_last, rl_scrape>>

\* ------------------------------------------------------------------------
\* GitHubRateLimit::collect
\* ------------------------------------------------------------------------
\* self.metrics.read(): the guard, or Err on a poisoned lock (empty result)
RL_CollectBegin(s) ==
    /\ rl_scrape[s].pc = "idle"
    /\ CanRead(rl_lock)
    /\ ~rl_lock.poisoned
    /\ rl_lock' = [rl_lock EXCEPT !.readers = @ + 1]
    /\ rl_scrape' = [rl_scrape EXCEPT ![s] =
                       [pc |-> "reading", idx |-> 0, acc |-> <<>>,
                        snap |-> rl_metrics]]
    /\ UNCHANGED <<rl_metrics, rl_uninit, rl_pc, rl_tokens, rl_new_stats, rl_w,
                   rl_last, rl_cu, rl_hist>>

\* one acc.extend(item.<gauge>.collect()) of the fold: limit, remaining,
\* reset of each item in turn
RL_CollectItem(s) ==
    /\ rl_scrape[s].pc = "reading"
    /\ rl_scrape[s].idx < 3 * Len(rl_metrics)
    /\ LET p == rl_scrape[s].idx
       IN  rl_scrape' = [rl_scrape EXCEPT
                           ![s].idx = p + 1,
                           ![s].acc = Append(@,
                               Samples(rl_metrics[(p \div 3) + 1])[(p % 3) + 1])]
    /\ UNCHANGED <<rl_metrics, rl_lock, rl_uninit, rl_pc, rl_tokens,
                   rl_new_stats, rl_w, rl_last, rl_cu, rl_hist>>

\* the fold is over: the guard is dropped and acc returned
RL_CollectEnd(s) ==
    /\ rl_scrape[s].pc = "reading"
    /\ rl_scrape[s].idx >= 3 * Len(rl_metrics)
    /\ rl_lock' = [rl_lock EXCEPT !.readers = @ - 1]
    /\ rl_scrape' = [rl_scrape EXCEPT ![s] = ScrapeIdle]
    /\ UNCHANGED <<rl_metrics, rl_uninit, rl_pc, rl_tokens, rl_new_stats, rl_w,
                   rl_last, rl_cu, rl_hist>>

\* ------------------------------------------------------------------------
\* GitHubRateLimit: properties
\* ------------------------------------------------------------------------
\* the gauge values of one item, in the order of the tuple
Triple(item) == <<item.remaining, item.limit, item.reset>>

\* the triples one response can give (and the 0s a new user starts with)
OneResponseTriples ==
    { <<0, 0, 0>> } \cup { SubSeq(StatsTuple("t", m), 2, 4) : m \in RateMaps }

\* none of the credentials of the cycle has been touched by it
RL_NoneUpdated ==
    \A i \in 1..Len(rl_hist.before) :
       /\ i <= Len(rl_metrics)
       /\ rl_metrics[i] = rl_hist.before[i]

\* every credential of the cycle has the values the cycle fetched for it
RL_AllUpdated ==
    /\ rl_hist.wrote
    /\ Len(rl_hist.stats) = Len(rl_hist.before)
    /\ \A i \in 1..Len(rl_hist.before) :
         /\ i <= Len(rl_metrics)
         /\ rl_metrics[i].token = rl_hist.stats[i][1]
         /\ Triple(rl_metrics[i]) = SubSeq(rl_hist.stats[i], 2, 4)

\* C2: whenever update_stats is not inside its write section (the only states
\* a collect can read in), the credentials of the cycle are either all as
\* they were when the cycle began or all set to what the cycle fetched, and
\* each credential's (remaining, limit, reset) is the triple of one response;
\* a collect in progress reads in such a state from its first sample to its
\* last, the list unchanged under it.
RL_ScrapeSeesWholeCycles ==
    /\ rl_pc # "write" =>
          /\ RL_NoneUpdated \/ RL_AllUpdated
          /\ \A i \in 1..Len(rl_metrics) :
                Triple(rl_metrics[i]) \in OneResponseTriples
    /\ \A s \in Scrapers :
         rl_scrape[s].pc = "reading" =>
            /\ rl_pc # "write"
            /\ rl_scrape[s].snap = rl_metrics
            /\ rl_scrape[s].idx <= 3 * Len(rl_metrics)
            /\ rl_scrape[s].acc =
                 SubSeq(CollectAll(rl_scrape[s].snap), 1, rl_scrape[s].idx)

\* C2 witness: a collect has read both credentials, set by an earlier cycle,
\* while update_stats holds a newer, different response for the first one.
RL_ScrapeDuringRefresh ==
    \E s \in Scrapers :
       /\ rl_scrape[s].pc = "reading"
       /\ Len(rl_metrics) = 2
       /\ rl_scrape[s].idx = 3 * Len(rl_metrics)
       /\ rl_metrics[1].limit # 0
       /\ rl_metrics[2].limit # 0
       /\ rl_pc = "fetch"
       /\ rl_new_stats # <<>>
       /\ SubSeq(rl_new_stats[1], 2, 4) # Triple(rl_metrics[1])

\* C5 (as claimed): when a cycle has ended on a failed fetch, every credential
\* the cycle did fetch has its gauges set to the fetched values.
RL_OtherCredentialsRefreshed ==
    (rl_pc = "idle" /\ rl_last = "Err") =>
       \A i \in 1..Len(rl_hist.stats) :
          LET j == Find(rl_metrics, rl_hist.stats[i][1])
          IN  /\ j # 0
              /\ Triple(rl_metrics[j]) = SubSeq(rl_hist.stats[i], 2, 4)

\* C8: every entry of the active list is a credential for which GET /user was
\* answered with a login, under that login; no token of the catch-up task's
\* unresolved list is in the active list, and no collect has read a sample
\* of one.
RL_ActiveOnlyResolved ==
    /\ \A i \in 1..Len(rl_metrics) :
          /\ rl_metrics[i].token \in rl_hist.resolved
          /\ rl_metrics[i].name = NameOf(rl_metrics[i].token)
    /\ SeqSet(rl_uninit) \cap SeqSet(TokensOf(rl_metrics)) = {}
    /\ \A s \in Scrapers :
          \A i \in 1..Len(rl_scrape[s].acc) :
             /\ \E t \in rl_hist.resolved :
                   rl_scrape[s].acc[i].username = NameOf(t)
             /\ \A t \in SeqSet(rl_uninit) :
                   rl_scrape[s].acc[i].username # NameOf(t)

\* C8 witness: a collect has read the samples of a credential the catch-up
\* task pushed while another credential is still unresolved.
RL_ScrapeWithUnresolved ==
    /\ rl_uninit # <<>>
    /\ rl_hist.pushed # {}
    /\ \E s \in Scrapers :
          /\ rl_scrape[s].pc = "reading"
          /\ rl_scrape[s].idx = 3 * Len(rl_metrics)
          /\ rl_scrape[s].acc # <<>>

\* C9 (as claimed): once the resolution of a credential has succeeded the
\* credential is in the active list (as soon as the catch-up task is through
\* its push).
RL_ResolvedBecomesActive ==
    rl_cu.pc # "push" =>
       rl_hist.resolved \subseteq SeqSet(TokensOf(rl_metrics))

SamplesFor(metrics, name, username, product) ==
    { i \in 1..Len(CollectAll(metrics)) :
        LET smp == CollectAll(metrics)[i]
        IN  /\ smp.name = name
            /\ smp.username = username
            /\ "product" \in DOMAIN smp
            /\ smp["product"] = product }

\* C18 (as claimed): after a cycle that fetched every credential and wrote,
\* each product of each response has its gauge triple, labelled by the
\* credential's username and the product, with the values the response
\* reports for that product.
RL_TriplePerProduct ==
    (rl_pc = "idle" /\ rl_last = "Ok" /\ rl_hist.wrote) =>
       \A i \in 1..Len(rl_hist.reported) :
          \A product \in DOMAIN rl_hist.reported[i] :
             \A name \in {"limit", "remaining", "reset"} :
                \E j \in SamplesFor(rl_metrics, name,
                                    NameOf(rl_hist.stats[i][1]), product) :
                   CollectAll(rl_metrics)[j].value =
                      RemoveOr0(rl_hist.reported[i][product], name)

\* C21: a credential whose latest resolution attempt met an exhausted quota
\* (remaining 0, or no `remaining`) is unresolved: GET /user was not sent in
\* that attempt, the credential is in the unresolved list and not in the
\* active list, and no collect has read a sample of it; a credential is in
\* the active list only once an attempt found quota left and GET /user
\* answered a login.
RL_ExhaustedStaysUnresolved ==
    /\ ~rl_hist.askedExhausted
    /\ \A t \in rl_hist.exhausted :
          /\ t \in SeqSet(rl_uninit)
          /\ t \notin SeqSet(TokensOf(rl_metrics))
          /\ t \notin SeqSet(TokensOf(rl_cu.users))
          /\ \A s \in Scrapers :
                \A i \in 1..Len(rl_scrape[s].acc) :
                   rl_scrape[s].acc[i].username # NameOf(t)
    /\ \A t \in SeqSet(TokensOf(rl_metrics)) :
          t \in rl_hist.resolved /\ t \notin rl_hist.exhausted

\* C21 witness: a catch-up pass has met an exhausted quota for a credential
\* while the other credential, once unresolved too, is active.
RL_ExhaustedAtCatchUp ==
    /\ rl_hist.exhausted # {}
    /\ rl_hist.pushed # {}
    /\ rl_cu.pc = "sleep"
    /\ rl_hist.exhausted = SeqSet(rl_uninit)

\* C22 (as claimed): every configured credential is in exactly one of the
\* active list and the catch-up task's unresolved list.
RL_CredentialsConserved ==
    \A t \in SeqSet(Tokens) :
       (t \in SeqSet(TokensOf(rl_metrics))) # (t \in SeqSet(rl_uninit))

\* C23 (as claimed): when a cycle in which every fetch succeeded has ended
\* (update_stats returned Ok), every credential the cycle read from the
\* active list has its remaining, limit and reset gauges at the values the
\* cycle fetched for its token, whatever ran beside it.
RL_SuccessfulCyclePublishes ==
    (rl_pc = "idle" /\ rl_last = "Ok") =>
       /\ Len(rl_hist.stats) = Len(rl_hist.before)
       /\ \A i \in 1..Len(rl_hist.stats) :
             LET j == Find(rl_metrics, rl_hist.stats[i][1])
             IN  /\ j # 0
                 /\ Triple(rl_metrics[j]) = SubSeq(rl_hist.stats[i], 2, 4)

\* C24: the find of the write section never fails: while a cycle fetches or
\* writes, the active list begins with the entries the cycle read its tokens
\* from (the list only grows, at its end), so every token still to query and
\* every tuple fetched has its entry; update_stats never panics and the lock
\* is never poisoned.
RL_FindNeverFails ==
    /\ rl_pc # "panicked"
    /\ rl_last # "panic"
    /\ ~rl_lock.poisoned
    /\ rl_pc \in {"fetch", "write"} =>
          /\ Len(rl_hist.before) <= Len(rl_metrics)
          /\ TokensOf(SubSeq(rl_metrics, 1, Len(rl_hist.before)))
                = TokensOf(rl_hist.before)
          /\ \A i \in 1..Len(rl_tokens) : Find(rl_metrics, rl_tokens[i]) # 0
          /\ \A i \in 1..Len(rl_new_stats) :
                Find(rl_metrics, rl_new_stats[i][1]) # 0

\* C24 witness: a cycle is in its write section, setting the gauges of the
\* credential it fetched, after the catch-up task pushed another credential
\* during the cycle's fetches.
RL_WriteAfterPush ==
    /\ rl_pc = "write"
    /\ rl_hist.before # <<>>
    /\ Len(rl_metrics) > Len(rl_hist.before)
    /\ rl_w.i = 1
    /\ rl_w.k = 3

\* the collect calls that hold a read guard
Reading(scrape) == { s \in Scrapers : scrape[s].pc = "reading" }

\* C25: no task holds a guard while it waits for the network or sleeps.  The
\* rate-limit task holds the read guard only between read() and the end of
\* the fold, and the write guard only in its write section; the catch-up
\* task holds the write guard only for its push; the runners task holds the
\* write guard only between write() and the assignment.  In every other
\* position (the fetches, the resolution pass, the sleeps) the only holders
\* of a lock are the collect calls in progress.
RL_NoGuardAcrossNetwork ==
    /\ rl_lock.readers =
          Cardinality(Reading(rl_scrape)) + (IF rl_pc = "reading" THEN 1 ELSE 0)
    /\ rl_lock.writer <=> (rl_pc = "write" \/ rl_cu.pc = "push")
    /\ gr_lock.readers = Cardinality(Reading(gr_scrape))
    /\ gr_lock.writer <=> gr_pc = "locked"

\* C25 witness: a collect got the read guard and read a sample while
\* update_stats is between two of its fetches.
RL_ScrapeBetweenFetches ==
    /\ rl_pc = "fetch"
    /\ rl_new_stats # <<>>
    /\ rl_tokens # <<>>
    /\ \E s \in Scrapers :
          rl_scrape[s].pc = "reading" /\ rl_scrape[s].acc # <<>>

\* C26: the catch-up task exists only when a credential was left unresolved
\* at construction; it sleeps the primary interval plus 10 seconds before
\* each pass; the list it retries is never empty and holds no credential
\* that has been resolved; and once a pass leaves no credential unresolved
\* the task is over: its list is empty and it takes no further step, so no
\* GET /user is sent any more.
RL_CatchUpEndsWhenResolved ==
    /\ rl_cu.pc = "none" =>
          /\ TokensOf(rl_metrics) = Tokens
          /\ rl_uninit = <<>>
    /\ rl_cu.pc # "none" =>
          /\ rl_cu.delay = RefreshRate + 10
          /\ \/ rl_uninit # <<>>
             \/ rl_hist.pushed \cup rl_hist.dropped # {}
    /\ rl_cu.pc = "sleep" =>
          /\ rl_uninit # <<>>
          /\ SeqSet(rl_uninit) \cap rl_hist.resolved = {}
    /\ rl_cu.pc = "push" =>
          /\ rl_cu.users # <<>>
          /\ SeqSet(rl_cu.rest) \cap rl_hist.resolved = {}
    /\ rl_cu.pc = "done" => rl_uninit = <<>>
    /\ rl_cu.pc \in {"none", "done"} =>
          ~ENABLED (RL_CatchUpPass \/ RL_CatchUpPush)

\* C26 witness: the catch-up task is over after it pushed a credential, and
\* a later refresh cycle polls both credentials.
RL_CatchUpOver ==
    /\ rl_cu.pc = "done"
    /\ rl_hist.pushed # {}
    /\ rl_pc = "fetch"
    /\ Len(rl_tokens) = Len(Tokens)

\* C14: in each collector at most one update_stats is in progress: a call
\* begins only when the task is between two calls (the call before has
\* returned, Ok or Err, and the task sleeps), and it is the only one until it
\* returns.
RL_CyclesNeverOverlap ==
    /\ rl_hist.running \in {0, 1}
    /\ rl_hist.running = 1 <=> rl_pc \in {"reading", "fetch", "write"}
    /\ gr_hist.running \in {0, 1}
    /\ gr_hist.running = 1 <=> gr_pc \in {"fetch", "publish", "locked"}

\* C14 witness: a cycle is in progress, on its own, after an earlier cycle
\* went through its write section and another one failed.
RL_LaterCycleAlone ==
    /\ rl_hist.running = 1
    /\ rl_pc = "fetch"
    /\ rl_new_stats # <<>>
    /\ rl_last = "Err"
    /\ \E i \in 1..Len(rl_metrics) : rl_metrics[i].limit # 0

\* ------------------------------------------------------------------------
\* lib.rs: MetricProvider, the HTTP service
\* ------------------------------------------------------------------------
\* "Bearer " as a sequence of characters
Bearer == <<"B", "e", "a", "r", "e", "r", " ">>

\* values of config.secret
Secrets == { <<"k">>, <<"k", " ">> }

\* texts of an Authorization header
HeaderTexts ==
    { Bearer \o <<"k">>,
      Bearer \o <<"k", " ">>,
      Bearer \o <<"k", "k">>,
      Bearer \o <<" ", "k">>,
      Bearer,
      <<" ">> \o Bearer \o <<"k">>,
      <<"b", "e", "a", "r", "e", "r", " ", "k">>,
      <<"B", "e", "a", "r", "e", "r", "k">>,
      <<"B", "a", "s", "i", "c", " ", "k">>,
      <<"k">> }

\* headers.get(AUTHORIZATION): None, or a value; `ascii` is whether
\* HeaderValue::to_str succeeds on it
AuthHeaders ==
    { [present |-> FALSE, ascii |-> TRUE, text |-> <<>>] } \cup
    [ present : {TRUE}, ascii : {TRUE}, text : HeaderTexts ] \cup
    { [present |-> TRUE, ascii |-> FALSE, text |-> Bearer \o <<"k">>] }

Methods == {"GET", "POST"}
Paths == {"/metrics", "/metrics/", "/"}

Requests == [ method : Methods, path : Paths, auth : AuthHeaders ]

\* str::strip_prefix: the rest of the string after the prefix, or None
strip_prefix(t, prefix) ==
    IF Len(t) >= Len(prefix) /\ SubSeq(t, 1, Len(prefix)) = prefix
    THEN [some |-> TRUE, rest |-> SubSeq(t, Len(prefix) + 1, Len(t))]
    ELSE [some |-> FALSE, rest |-> <<>>]

\* a check that accepts any token the secret is a prefix of
is_auth_token_valid_prefix(secret, auth) ==
    /\ auth.present
    /\ auth.ascii
    /\ strip_prefix(auth.text, Bearer).some
    /\ strip_prefix(strip_prefix(auth.text, Bearer).rest, secret).some
\* is_auth_token_valid
is_auth_token_valid(secret, auth) ==
    IF ~auth.present THEN FALSE
    ELSE IF ~auth.ascii THEN FALSE
    ELSE IF strip_prefix(auth.text, Bearer).some
         THEN strip_prefix(auth.text, Bearer).rest = secret
         ELSE FALSE

\* a match on the path alone
route_by_path(method, path, authorized) ==
    IF path = "/metrics"
    THEN (IF authorized THEN "metrics" ELSE "unauthorized")
    ELSE "other"
\* the arms of `match (req.method(), req.uri().path(), authorized)`
route(method, path, authorized) ==
    IF method = "GET" /\ path = "/metrics" /\ authorized THEN "metrics"
    ELSE IF method = "GET" /\ path = "/metrics" /\ ~authorized THEN "unauthorized"
    ELSE "other"

\* a response body: Body::empty(), the liveness text, or the encoded
\* gather() of the registered collectors
EmptyBody == [kind |-> "empty", of |-> {}]
AliveBody == [kind |-> "alive", of |-> {}]
MetricsBody(registry) == [kind |-> "metrics", of |-> registry]

\* Service::call on one request; `encoded` is what gather_with_encoder
\* returns when it is called.  gathered: self.register.gather() was called.
call(secret, registry, req, encoded) ==
    LET authorized == is_auth_token_valid(secret, req.auth)
        arm        == route(req.method, req.path, authorized)
    IN  CASE arm = "metrics" ->
               IF encoded = "Ok"
               THEN [status |-> 200, body |-> MetricsBody(registry), gathered |-> TRUE]
               ELSE [status |-> 500, body |-> EmptyBody, gathered |-> TRUE]
          [] arm = "unauthorized" ->
               [status |-> 401, body |-> EmptyBody, gathered |-> FALSE]
          [] OTHER ->
               [status |-> 200, body |-> AliveBody, gathered |-> FALSE]

NoCall ==
    [req |-> [method |-> "", path |-> "",
              auth |-> [present |-> FALSE, ascii |-> TRUE, text |-> <<>>]],
     resp |-> [status |-> 0, body |-> EmptyBody, gathered |-> FALSE]]

\* ------------------------------------------------------------------------
\* collectors/mod.rs: register_collectors
\* ------------------------------------------------------------------------
\* the identities (Desc fq_name) of the two collectors
RateLimitId == "github_rate_limit"
RunnersId == "gha_runner"

\* MetricProvider::register_collector (Registry::register): Err when the
\* identity is registered already, the registry left as it is
register_collector(registry, id) ==
    IF id \in registry
    THEN [result |-> "Err", registry |-> registry]
    ELSE [result |-> "Ok", registry |-> registry \cup {id}]

\* register_collectors that goes on to the runners collector after an Err
AfterRateLimitAnyway(result) == "new_runners"
\* `.await?` at line 25: an Err of the first collector is returned
AfterRateLimit(result) == IF result = "Ok" THEN "new_runners" ELSE "failed"

\* no registration yet
NoReg == [id |-> "", before |-> {}, result |-> "none"]

\* One call of register_collectors: its position and (history) the
\* collectors it has built, the registry it began with, its last register.
BootAt(pc, registry) ==
    [pc |-> pc, built |-> {}, atStart |-> registry, reg |-> NoReg]

SRV_Init ==
    /\ srv_secret \in Secrets
    /\ srv_registry = {}
    /\ srv_boot = BootAt("start", {})
    /\ srv_call = NoCall

\* ClientBuilder::new().user_agent(..).build()?
SRV_BuildClient ==
    /\ srv_boot.pc = "start"
    /\ \E built \in {"Ok", "Err"} :
         srv_boot' = [srv_boot EXCEPT
                        !.pc = IF built = "Ok" THEN "new_rate_limit" ELSE "failed"]
    /\ UNCHANGED <<srv_secret, srv_registry, srv_call>>

\* GitHubRateLimit::new(..): the collector is built (it returns Ok)
SRV_NewRateLimit ==
    /\ srv_boot.pc = "new_rate_limit"
    /\ srv_boot' = [srv_boot EXCEPT !.pc = "register_rate_limit",
                                    !.built = @ \cup {RateLimitId}]
    /\ UNCHANGED <<srv_secret, srv_registry, srv_call>>

\* .and_then(|rl| p.register_collector(rl)).await?
SRV_RegisterRateLimit ==
    /\ srv_boot.pc = "register_rate_limit"
    /\ LET r == register_collector(srv_registry, RateLimitId)
       IN  /\ srv_registry' = r.registry
           /\ srv_boot' = [srv_boot EXCEPT
                             !.pc = AfterRateLimit(r.result),
                             !.reg = [id |-> RateLimitId, before |-> srv_registry,
                                      result |-> r.result]]
    /\ UNCHANGED <<srv_secret, srv_call>>

\* GithubRunners::new(..): the collector is built (it returns Ok)
SRV_NewRunners ==
    /\ srv_boot.pc = "new_runners"
    /\ srv_boot' = [srv_boot EXCEPT !.pc = "register_runners",
                                    !.built = @ \cup {RunnersId}]
    /\ UNCHANGED <<srv_secret, srv_registry, srv_call>>

\* .and_then(|gr| p.register_collector(gr)).await: the result of the call
SRV_RegisterRunners ==
    /\ srv_boot.pc = "register_runners"
    /\ LET r == register_collector(srv_registry, RunnersId)
       IN  /\ srv_registry' = r.registry
           /\ srv_boot' = [srv_boot EXCEPT
                             !.pc = IF r.result = "Ok" THEN "ok" ELSE "failed",
                             !.reg = [id |-> RunnersId, before |-> srv_registry,
                                      result |-> r.result]]
    /\ UNCHANGED <<srv_secret, srv_call>>

\* register_collectors is a pub fn: it can be called again on the same
\* provider once a call has returned (main calls it once)
SRV_RegisterAgain ==
    /\ srv_boot.pc \in {"ok", "failed"}
    /\ srv_boot' = BootAt("start", srv_registry)
    /\ UNCHANGED <<srv_secret, srv_registry, srv_call>>

\* Service::call: the server answers a request once register_collectors
\* has returned Ok (main.rs, lines 20-25)
SRV_Call ==
    /\ srv_boot.pc = "ok"
    /\ \E req \in Requests, encoded \in {"Ok", "Err"} :
         srv_call' = [req |-> req,
                      resp |-> call(srv_secret, srv_registry, req, encoded)]
    /\ UNCHANGED <<srv_secret, srv_registry, srv_boot>>

\* ------------------------------------------------------------------------
\* MetricProvider: properties
\* ------------------------------------------------------------------------
IsGetMetrics(req) == req.method = "GET" /\ req.path = "/metrics"

\* the header is the string "Bearer " followed by the secret, nothing else
ExactBearer(secret, auth) ==
    /\ auth.present
    /\ auth.ascii
    /\ auth.text = Bearer \o secret

SRV_OtherRequestsAlive ==
    (srv_call.req.method # "" /\ ~IsGetMetrics(srv_call.req)) =>
       /\ srv_call.resp.status = 200
       /\ srv_call.resp.body = AliveBody
       /\ ~srv_call.resp.gathered

\* C17 witness: a POST /metrics with the valid header got the liveness body.
SRV_PostMetricsAlive ==
    /\ srv_call.req.method = "POST"
    /\ srv_call.req.path = "/metrics"
    /\ ExactBearer(srv_secret, srv_call.req.auth)
    /\ srv_call.resp.body = AliveBody

\* C20: a register of an identity the registry does not hold returns Ok and
\* adds it, so the two collectors register on a fresh provider; a register
\* of an identity it holds returns Err and leaves the registry as it was;
\* and a call of register_collectors that failed on its first collector has
\* not built the second one.
SRV_RegistrationIsExclusive ==
    /\ srv_boot.reg.result # "none" =>
          IF srv_boot.reg.id \in srv_boot.reg.before
          THEN /\ srv_boot.reg.result = "Err"
               /\ srv_registry = srv_boot.reg.before
               /\ srv_boot.pc = "failed"
          ELSE /\ srv_boot.reg.result = "Ok"
               /\ srv_registry = srv_boot.reg.before \cup {srv_boot.reg.id}
    /\ (srv_boot.atStart = {} /\ srv_boot.pc = "ok") =>
          srv_registry = {RateLimitId, RunnersId}
    /\ (srv_boot.atStart = {} /\ srv_boot.pc = "failed") =>
          srv_boot.built = {}
    /\ (srv_boot.reg.id = RateLimitId /\ srv_boot.reg.result = "Err") =>
          /\ srv_boot.pc = "failed"
          /\ RunnersId \notin srv_boot.built

\* C20 witness: a call of register_collectors on a provider that holds both
\* collectors failed on the register of the first one.
SRV_SecondRegistrationFailed ==
    /\ srv_boot.pc = "failed"
    /\ srv_boot.atStart = {RateLimitId, RunnersId}
    /\ srv_boot.reg.id = RateLimitId
    /\ srv_boot.reg.result = "Err"
    /\ srv_boot.built = {RateLimitId}

\* ------------------------------------------------------------------------
\* Specifications: the collectors share nothing, each runs on its own
\* ------------------------------------------------------------------------
\* the rate-limit collector left out: no credential, no task running
RL_Quiet ==
    /\ rl_metrics = <<>>
    /\ rl_uninit = <<>>
    /\ rl_cu = CatchUpAt("none")
    /\ rl_hist = HistInit({})
    /\ rl_lock = LockFree
    /\ rl_pc = "idle"
    /\ rl_tokens = <<>>
    /\ rl_new_stats = <<>>
    /\ rl_w = [i |-> 0, k |-> 0]
    /\ rl_last = "none"
    /\ rl_scrape = [s \in Scrapers |-> ScrapeIdle]

\* the HTTP service left out: nothing registered, no request
SRV_Quiet ==
    /\ srv_secret = <<>>
    /\ srv_registry = {}
    /\ srv_boot = BootAt("none", {})
    /\ srv_call = NoCall

RunnersNext ==
    \/ GR_UpdateStart /\ UNCHANGED <<rl_vars, srv_vars>>
    \/ GR_Fetch /\ UNCHANGED <<rl_vars, srv_vars>>
    \/ GR_WriteLock /\ UNCHANGED <<rl_vars, srv_vars>>
    \/ GR_Publish /\ UNCHANGED <<rl_vars, srv_vars>>
    \/ \E s \in Scrapers : GR_CollectBegin(s) /\ UNCHANGED <<rl_vars, srv_vars>>
    \/ \E s \in Scrapers : GR_CollectItem(s) /\ UNCHANGED <<rl_vars, srv_vars>>
    \/ \E s \in Scrapers : GR_CollectEnd(s) /\ UNCHANGED <<rl_vars, srv_vars>>

RateLimitNext ==
    \/ RL_ReadLock /\ UNCHANGED <<gr_vars, srv_vars>>
    \/ RL_ReadTokens /\ UNCHANGED <<gr_vars, srv_vars>>
    \/ RL_Fetch /\ UNCHANGED <<gr_vars, srv_vars>>
    \/ RL_TryWrite /\ UNCHANGED <<gr_vars, srv_vars>>
    \/ RL_Set /\ UNCHANGED <<gr_vars, srv_vars>>
    \/ RL_WriteEnd /\ UNCHANGED <<gr_vars, srv_vars>>
    \/ RL_CatchUpPass /\ UNCHANGED <<gr_vars, srv_vars>>
    \/ RL_CatchUpPush /\ UNCHANGED <<gr_vars, srv_vars>>
    \/ \E s \in Scrapers : RL_CollectBegin(s) /\ UNCHANGED <<gr_vars, srv_vars>>
    \/ \E s \in Scrapers : RL_CollectItem(s) /\ UNCHANGED <<gr_vars, srv_vars>>
    \/ \E s \in Scrapers : RL_CollectEnd(s) /\ UNCHANGED <<gr_vars, srv_vars>>

\* the runners collector as constructed, the rate-limit collector left out
RunnersInit ==
    /\ GR_Init
    /\ RL_Quiet
    /\ SRV_Quiet

\* the rate-limit collector as constructed; the runners collector stays as
\* constructed, none of its steps is taken
RateLimitInit ==
    /\ RL_Init
    /\ GR_Init
    /\ SRV_Quiet

\* the provider as MetricProvider::new returns it; the collectors are the
\* two identities, their tasks are not run
ServerInit ==
    /\ SRV_Init
    /\ GR_Init
    /\ RL_Quiet

ServerNext ==
    \/ SRV_BuildClient /\ UNCHANGED <<gr_vars, rl_vars>>
    \/ SRV_NewRateLimit /\ UNCHANGED <<gr_vars, rl_vars>>
    \/ SRV_RegisterRateLimit /\ UNCHANGED <<gr_vars, rl_vars>>
    \/ SRV_NewRunners /\ UNCHANGED <<gr_vars, rl_vars>>
    \/ SRV_RegisterRunners /\ UNCHANGED <<gr_vars, rl_vars>>
    \/ SRV_RegisterAgain /\ UNCHANGED <<gr_vars, rl_vars>>
    \/ SRV_Call /\ UNCHANGED <<gr_vars, rl_vars>>

SpecRunners == RunnersInit /\ [][RunnersNext]_vars

SpecRateLimit == RateLimitInit /\ [][RateLimitNext]_vars

SpecServer == ServerInit /\ [][ServerNext]_vars

====
